---- MODULE Spec2Model ----
(***************************************************************************)
(* A model of src/src/die.rs: one Die (the receiver `self` of every        *)
(* method), the other dice that are handed to exploded()/rerolled() by     *)
(* reference, and the methods of impl Die.                                 *)
(*                                                                         *)
(*   Option<T>   None is <<>>, Some(x) is <<x>>                            *)
(*   Vec<i16>    a sequence; Rust's index i is the sequence's i + 1        *)
(*   String id   Uuid::new_v4().to_string(): a fresh value per new();      *)
(*               a distinct natural number here                            *)
(*   timestamp   Utc::now(): the reading of a logical clock                *)
(*   panic       roll() can panic (Range::new asserts low < high, and a    *)
(*               slice index out of bounds); `panicked` records it and     *)
(*               the thread that owned the die does nothing more           *)
(***************************************************************************)
EXTENDS Integers, Sequences, FiniteSets

VARIABLES self, others, phase, panicked

vars == <<self, others, phase, panicked>>

\* ------------------------------------------------------------------ bounds

\* set_min / set_max are called with every m in -MaxArg .. MaxArg
MaxArg == 2

\* the number of other dice that exist beside `self` in SpecLife
MaxDice == 2

\* SpecLife starts from the kinds whose table maximum is at most MaxFaces
MaxFaces == 12

\* ------------------------------------------------------------- data model

DieType == {"D4", "D6", "D8", "D10", "D12", "D20", "D100", "Fate", "Other"}

None == <<>>

Some(x) == <<x>>

get_die_min(die) ==
    CASE die = "D4"    -> 1
      [] die = "D6"    -> 1
      [] die = "D8"    -> 1
      [] die = "D10"   -> 1
      [] die = "D12"   -> 1
      [] die = "D20"   -> 1
      [] die = "D100"  -> 1
      [] die = "Fate"  -> -1
      [] die = "Other" -> 0

get_die_max(die) ==
    CASE die = "D4"    -> 4
      [] die = "D6"    -> 6
      [] die = "D8"    -> 8
      [] die = "D10"   -> 10
      [] die = "D12"   -> 12
      [] die = "D20"   -> 20
      [] die = "D100"  -> 100
      [] die = "Fate"  -> 1
      [] die = "Other" -> 0

\* new() with the two bound lookups exchanged
new_bounds_swapped(die, uuid, now) ==
    [ id            |-> uuid,
      child         |-> None,
      die           |-> die,
      is_dropped    |-> FALSE,
      is_exploded   |-> FALSE,
      is_rerolled   |-> FALSE,
      is_successful |-> FALSE,
      max           |-> get_die_min(die),
      min           |-> get_die_max(die),
      sides         |-> None,
      timestamp     |-> now,
      value         |-> 0 ]

\* Die::new(die); uuid and now are what Uuid::new_v4() and Utc::now() return
new(die, uuid, now) ==
    [ id            |-> uuid,
      child         |-> None,
      die           |-> die,
      is_dropped    |-> FALSE,
      is_exploded   |-> FALSE,
      is_rerolled   |-> FALSE,
      is_successful |-> FALSE,
      max           |-> get_die_max(die),
      min           |-> get_die_min(die),
      sides         |-> None,
      timestamp     |-> now,
      value         |-> 0 ]

\* ---------------------------------------------------------------- methods

\* drop() as a toggle
drop_toggle(d) == [d EXCEPT !.is_dropped = ~d.is_dropped]

drop(d) == [d EXCEPT !.is_dropped = TRUE]

\* exploded() that keeps a child link already set
exploded_keeps_child(d, die) ==
    [d EXCEPT !.is_exploded = TRUE,
              !.child = IF d.child = None THEN Some(die.id) ELSE d.child]

exploded(d, die) == [d EXCEPT !.is_exploded = TRUE, !.child = Some(die.id)]

success(d) == [d EXCEPT !.is_successful = TRUE]

\* rerolled() that treats the flags as one exclusive state
rerolled_exclusive(d, die) ==
    [d EXCEPT !.is_rerolled = TRUE, !.is_exploded = FALSE, !.child = Some(die.id)]

rerolled(d, die) == [d EXCEPT !.is_rerolled = TRUE, !.child = Some(die.id)]

\* set_min() that clamps to the other bound
set_min_clamped(d, min) == [d EXCEPT !.min = IF min > d.max THEN d.max ELSE min]

set_min(d, min) == [d EXCEPT !.min = min]

set_max(d, max) == [d EXCEPT !.max = max]

\* rand::distributions::Range::new(low, high) asserts low < high
RangeNew(low, high) == low < high

\* a sampler over the closed range [low, high]
ind_sample_closed(low, high) == low .. high

\* Range::ind_sample draws from the half-open range [low, high)
ind_sample(low, high) == low .. (high - 1)

\* Range::new(0, self.max) on both branches
roll_low_zero(d) == 0

\* the arguments roll() gives Range::new on each branch of its match
roll_low(d) == IF d.sides # None THEN 0 ELSE d.min

roll_high(d) == IF d.sides # None THEN Len(d.sides[1]) ELSE d.max

\* sides[idx] is in bounds (always true on the min/max branch, which indexes nothing)
index_ok(d, draw) == d.sides = None \/ (draw + 1) \in DOMAIN d.sides[1]

\* roll() that marks success on the custom-sides branch only
roll_success_on_sides_only(d, draw) ==
    IF d.sides # None
    THEN [d EXCEPT !.value = d.sides[1][draw + 1], !.is_successful = TRUE]
    ELSE [d EXCEPT !.value = draw]

\* the assignments of roll() once the draw is made
roll(d, draw) ==
    IF d.sides # None
    THEN [d EXCEPT !.value = d.sides[1][draw + 1], !.is_successful = TRUE]
    ELSE [d EXCEPT !.value = draw, !.is_successful = TRUE]

\* ----------------------------------------------------------------- inputs

Args == (0 - MaxArg) .. MaxArg

\* the values written to the public field `sides`
SidesArgs == { Some(<<2, 4, 6, 8, 10>>), Some(<<3, -1, 3>>), Some(<< >>) }

SmallKinds == { k \in DieType : get_die_max(k) <= MaxFaces }

\* ---------------------------------------------------------------- actions

\* phase: "new" until a method is called, "rolled" once roll() has been called
touched == IF phase = "rolled" THEN "rolled" ELSE "used"

Drop ==
    /\ ~panicked
    /\ self' = drop(self)
    /\ phase' = touched
    /\ UNCHANGED <<others, panicked>>

Success ==
    /\ ~panicked
    /\ self' = success(self)
    /\ phase' = touched
    /\ UNCHANGED <<others, panicked>>

Exploded(c) ==
    /\ ~panicked
    /\ self' = exploded(self, others[c])
    /\ phase' = touched
    /\ UNCHANGED <<others, panicked>>

Rerolled(c) ==
    /\ ~panicked
    /\ self' = rerolled(self, others[c])
    /\ phase' = touched
    /\ UNCHANGED <<others, panicked>>

SetMin(m) ==
    /\ ~panicked
    /\ self' = set_min(self, m)
    /\ phase' = touched
    /\ UNCHANGED <<others, panicked>>

SetMax(m) ==
    /\ ~panicked
    /\ self' = set_max(self, m)
    /\ phase' = touched
    /\ UNCHANGED <<others, panicked>>

SetSides(s) ==
    /\ ~panicked
    /\ self' = [self EXCEPT !.sides = s]
    /\ phase' = touched
    /\ UNCHANGED <<others, panicked>>

Roll ==
    /\ ~panicked
    /\ phase' = "rolled"
    /\ UNCHANGED others
    /\ IF ~RangeNew(roll_low(self), roll_high(self))
       THEN panicked' = TRUE /\ UNCHANGED self
       ELSE \E draw \in ind_sample(roll_low(self), roll_high(self)) :
                IF index_ok(self, draw)
                THEN self' = roll(self, draw) /\ UNCHANGED panicked
                ELSE panicked' = TRUE /\ UNCHANGED self

\* --------------------------------------------------------- specifications

\* one die of any kind: bounds, custom sides and rolling
Init ==
    /\ \E k \in DieType : self = new(k, 1, 0)
    /\ others = << >>
    /\ phase = "new"
    /\ panicked = FALSE

Next ==
    \/ Drop
    \/ Success
    \/ \E m \in Args : SetMin(m)
    \/ \E m \in Args : SetMax(m)
    \/ \E s \in SidesArgs : SetSides(s)
    \/ Roll

Spec == Init /\ [][Next]_vars

\* the whole life of a die beside MaxDice other dice it can be linked to
InitLife ==
    /\ \E k \in SmallKinds : self = new(k, 1, 0)
    /\ others = [i \in 1 .. MaxDice |-> new("D20", i + 1, i)]
    /\ phase = "new"
    /\ panicked = FALSE

NextLife ==
    \/ Drop
    \/ Success
    \/ \E c \in DOMAIN others : Exploded(c)
    \/ \E c \in DOMAIN others : Rerolled(c)
    \/ \E m \in Args : SetMin(m)
    \/ \E m \in Args : SetMax(m)
    \/ \E s \in SidesArgs : SetSides(s)
    \/ Roll

SpecLife == InitLife /\ [][NextLife]_vars

\* ------------------------------------------------------------- properties

\* the fields of d other than those in fs are the same in e
SameExcept(d, e, fs) == \A f \in (DOMAIN d) \ fs : e[f] = d[f]

\* a call of roll() that returned (stored a value) rather than panicked
RollReturns == Roll /\ ~panicked'

(* C1: with sides absent and min <= max, every value that roll() stores    *)
(* lies between min and max, both included.                                *)
C1_RollWithinBounds ==
    [][ (RollReturns /\ self.sides = None /\ self.min <= self.max)
          => (self.min <= self'.value /\ self'.value <= self.max) ]_vars

C1_Witness ==
    /\ phase = "rolled" /\ ~panicked
    /\ self.die = "D20" /\ self.sides = None
    /\ self.min = 1 /\ self.max = 20 /\ self.value = 19

(* C2: with sides absent and min <= max, roll() can store every integer of *)
(* the closed range min .. max, max itself included.                       *)
C2_ClosedRange ==
    (~panicked /\ self.sides = None /\ self.min <= self.max)
      => \A v \in self.min .. self.max :
            ENABLED (RollReturns /\ self'.value = v)

(* C3: with sides a non-empty list, roll() draws an index inside the list  *)
(* (it does not panic) and stores an element of the list.                  *)
C3_RollCustomSides ==
    [][ (Roll /\ self.sides # None /\ Len(self.sides[1]) > 0)
          => /\ ~panicked'
             /\ \A draw \in ind_sample(roll_low(self), roll_high(self)) :
                    draw \in 0 .. (Len(self.sides[1]) - 1)
             /\ \E i \in DOMAIN self.sides[1] :
                    self'.value = self.sides[1][i] ]_vars

C3_Witness ==
    /\ phase = "rolled" /\ ~panicked
    /\ self.die = "Other" /\ self.min = 0 /\ self.max = 0
    /\ self.sides = Some(<<2, 4, 6, 8, 10>>) /\ self.value = 10

(* C4: a die fresh from new(k) has the kind k, the bounds of the kind      *)
(* table, value 0, every flag false, no child and no sides.                *)
C4_KindTable ==
    [ k \in DieType |->
        CASE k = "D4"    -> <<1, 4>>
          [] k = "D6"    -> <<1, 6>>
          [] k = "D8"    -> <<1, 8>>
          [] k = "D10"   -> <<1, 10>>
          [] k = "D12"   -> <<1, 12>>
          [] k = "D20"   -> <<1, 20>>
          [] k = "D100"  -> <<1, 100>>
          [] k = "Fate"  -> <<-1, 1>>
          [] k = "Other" -> <<0, 0>> ]

C4_FreshDie(d) ==
    /\ d.die \in DieType
    /\ <<d.min, d.max>> = C4_KindTable[d.die]
    /\ d.value = 0
    /\ d.is_dropped = FALSE /\ d.is_exploded = FALSE
    /\ d.is_rerolled = FALSE /\ d.is_successful = FALSE
    /\ d.child = None /\ d.sides = None

C4_New ==
    /\ phase = "new" => C4_FreshDie(self)
    /\ \A k \in DieType : new(k, 1, 0).die = k /\ C4_FreshDie(new(k, 1, 0))

C4_Witness == phase = "new" /\ self.die = "D100" /\ self.max = 100

(* C5: no operation fails: in every reachable state, roll() included, no   *)
(* call has panicked.                                                      *)
C5_Total == ~panicked

(* C6: exploded(c) and rerolled(c) set their flag and child = Some(c.id)   *)
(* whatever child held before and leave c as it was; child is None at the  *)
(* start and changes in no other step.                                     *)
C6_ChildLink ==
    /\ self.child = None
    /\ [][ /\ \A c \in DOMAIN others :
                /\ Exploded(c) => /\ self'.is_exploded = TRUE
                                  /\ self'.child = Some(others[c].id)
                                  /\ others' = others
                /\ Rerolled(c) => /\ self'.is_rerolled = TRUE
                                  /\ self'.child = Some(others[c].id)
                                  /\ others' = others
           /\ self'.child # self.child
                => \E c \in DOMAIN others : Exploded(c) \/ Rerolled(c) ]_vars

C6_Witness ==
    /\ self.is_exploded /\ self.is_rerolled
    /\ self.child = Some(others[2].id)
    /\ others[2] = new("D20", 3, 2)

(* C7: set_min(m) makes min exactly m and set_max(m) makes max exactly m,  *)
(* also when that inverts the range, and neither changes any other field.  *)
C7_SetBounds ==
    [][ \A m \in Args :
          /\ SetMin(m) => self'.min = m /\ SameExcept(self, self', {"min"})
          /\ SetMax(m) => self'.max = m /\ SameExcept(self, self', {"max"}) ]_vars

C7_Witness ==
    /\ self.die = "D20" /\ self.min = MaxArg /\ self.max = 0 - MaxArg
    /\ self.value = 0 /\ self.sides = None

(* C8: is_dropped, is_exploded and is_rerolled never go from true to       *)
(* false, and the step that sets one of them leaves the other two alone.   *)
C8_Latches ==
    [][ /\ self.is_dropped => self'.is_dropped
        /\ self.is_exploded => self'.is_exploded
        /\ self.is_rerolled => self'.is_rerolled
        /\ Drop => /\ self'.is_exploded = self.is_exploded
                   /\ self'.is_rerolled = self.is_rerolled
        /\ \A c \in DOMAIN others :
             /\ Exploded(c) => /\ self'.is_dropped = self.is_dropped
                               /\ self'.is_rerolled = self.is_rerolled
             /\ Rerolled(c) => /\ self'.is_dropped = self.is_dropped
                               /\ self'.is_exploded = self.is_exploded ]_vars

C8_Witness ==
    /\ phase = "rolled" /\ ~panicked
    /\ self.is_exploded /\ ~self.is_rerolled /\ self.is_dropped
    /\ self.min # get_die_min(self.die) /\ self.max # get_die_max(self.die)

(* C9: drop() sets is_dropped and success() sets is_successful; a second   *)
(* call changes nothing more, and no other field changes.                  *)
C9_DropSuccess ==
    [][ /\ Drop => /\ self'.is_dropped = TRUE
                   /\ SameExcept(self, self', {"is_dropped"})
                   /\ drop(self') = self'
                   /\ others' = others
        /\ Success => /\ self'.is_successful = TRUE
                      /\ SameExcept(self, self', {"is_successful"})
                      /\ success(self') = self'
                      /\ others' = others ]_vars

C9_Witness ==
    /\ phase = "used" /\ self.is_dropped /\ self.is_successful
    /\ self.value = 0 /\ self.min = get_die_min(self.die)

(* C10: a roll() that returns leaves is_successful true and changes no     *)
(* field but value and is_successful; value is 0 until roll() is called.   *)
C10_RollFrame ==
    /\ phase # "rolled" => self.value = 0
    /\ [][ /\ phase' # "rolled" => self'.value = 0
           /\ RollReturns => /\ self'.is_successful = TRUE
                             /\ SameExcept(self, self', {"value", "is_successful"})
                             /\ others' = others ]_vars

C10_Witness ==
    /\ phase = "rolled" /\ ~panicked
    /\ self.is_successful /\ self.is_exploded /\ self.is_dropped
    /\ self.sides = None /\ self.child # None
    /\ self.value = get_die_max(self.die) - 1 /\ self.value > MaxArg

====
